---- MODULE Spec2Model ----
(***************************************************************************)
(* Model of the orchestration engine of adithya11sci/multiagent_system:    *)
(* LangChainOrchestrator.process_message and _execute_plan                 *)
(* (src/orchestrator/orchestrator.py), with the planner                    *)
(* (PlannerAgent.plan / replan) and the MCP tool registry                  *)
(* (MCPToolRegistry.execute_tool) it calls.                                *)
(*                                                                         *)
(* A run is one call of process_message.  The planner, the replanner and   *)
(* the executors are language-model calls: their answers are inputs, drawn *)
(* from bounded sets.  Strings the code formats are modelled as sequences  *)
(* of their parts, so that "the message contains the name" is a property   *)
(* of the formatted value.  Step fields that the loop only copies          *)
(* (action, parameters, expected_output) are left out.                     *)
(***************************************************************************)
EXTENDS Integers, Sequences, FiniteSets, TLC

VARIABLES
    pc,                 \* position of process_message
    plan,               \* local `plan` (planner_agent.plan's answer)
    new_plan,           \* local `new_plan` (planner_agent.replan's answer)
    round,              \* 0 before the first _execute_plan, then 1 or 2
    idx,                \* position of _execute_plan's for loop (1-based)
    execution_results,  \* local `execution_results`
    prev_results,       \* history: the results handed to replan (overwritten in the code)
    dispatch_log,       \* history: every step the for loop entered, in order
    planning_rounds,    \* history: calls of planner_agent.plan and .replan
    response,           \* the OrchestrationResult returned
    conversation_state, \* context.conversation_state
    escaped,            \* an exception left process_message
    global_state,       \* PlannerAgent.global_state of the one planner instance
    active,             \* the request inside the orchestrator's run (0: none)
    req_pc,             \* position of each request
    reads,              \* history: what each request's last refine_plan read
    writers,            \* position of each concurrent caller of update_state
    _tools,             \* MCPToolRegistry._tools: name -> tool definition
    permissions,        \* UserContext.permissions of the caller's context
    tool_call,          \* history: the last execute_tool call and its answer
    _contexts,          \* ContextProtocol._contexts: conversation id -> context object (0: none)
    ctx_callers,        \* position of each concurrent create_user_context call
    ctx_created,        \* history: the UserContext objects created so far
    _token_store,       \* OAuth2Manager._token_store: pair -> entry
    token_files,        \* the files ./credentials/oauth_<pair>.json
    cipher,             \* the Fernet key of the running process
    now,                \* datetime.utcnow(), in seconds
    token_lookup,       \* history: the last get_oauth_token call and its outcome
    notification_service,\* NotificationService: twilio_client and the SMTP settings it reads
    notif_call,         \* the running send_* call: arguments, loop position, sent, failed, errors
    notif_status,       \* the delivery status the last call returned
    delivery_log,       \* history: what happened to each recipient of the call
    active_connections, \* server.active_connections, in list order
    endpoints,          \* the connections whose websocket_endpoint is in its heartbeat loop
    broadcast,          \* the running broadcast_update: position of its iterator, the connection it awaits
    removed_twice       \* history: a remove() of a connection that was not in the list (ValueError)

\* the variables of process_message
orch_vars == << pc, plan, new_plan, round, idx, execution_results, prev_results,
                dispatch_log, planning_rounds, response, conversation_state, escaped >>

\* the variables of the requests served through the shared planner
request_vars == << global_state, active, req_pc, reads, writers >>

\* the variables of the tool registry and of the context it checks
tool_vars == << _tools, permissions, tool_call >>

\* the variables of the context store
ctx_vars == << _contexts, ctx_callers, ctx_created >>

\* the variables of the OAuth token store
oauth_vars == << _token_store, token_files, cipher, now, token_lookup >>

\* the variables of the notification service
notif_vars == << notification_service, notif_call, notif_status, delivery_log >>

\* the variables of the websocket connections
ws_vars == << active_connections, endpoints, broadcast, removed_twice >>

\* everything but the variables of process_message
outside_orch == << request_vars, tool_vars, ctx_vars, oauth_vars, notif_vars, ws_vars >>

\* everything but the variables of the requests
outside_request == << orch_vars, tool_vars, ctx_vars, oauth_vars, notif_vars, ws_vars >>

\* everything but the variables of the tool registry
outside_tool == << orch_vars, request_vars, ctx_vars, oauth_vars, notif_vars, ws_vars >>

\* everything but the variables of the context store
outside_ctx == << orch_vars, request_vars, tool_vars, oauth_vars, notif_vars, ws_vars >>

\* everything but the variables of the OAuth token store
outside_oauth == << orch_vars, request_vars, tool_vars, ctx_vars, notif_vars, ws_vars >>

\* everything but the variables of the notification service
outside_notif == << orch_vars, request_vars, tool_vars, ctx_vars, oauth_vars, ws_vars >>

\* everything but the variables of the websocket connections
outside_ws == << orch_vars, request_vars, tool_vars, ctx_vars, oauth_vars, notif_vars >>

vars == << orch_vars, request_vars, tool_vars, ctx_vars, oauth_vars, notif_vars, ws_vars >>

----------------------------------------------------------------------------
(* Bounds of the inputs. *)

\* longest execution_plan the planner answers with
MaxSteps == 2

\* longest execution_plan the replanner answers with
MaxReplanSteps == 1

\* step numbers / task ids a plan may use
TaskIds == {1, 2}

\* values of the iteration budget (settings.max_iterations) the claims range over
Budgets == {0, 1, 3, 5}

----------------------------------------------------------------------------
(* Vocabulary: the agent and tool names of the planner's prompt. *)

\* (agent, tool) pairs a step may name
Capabilities ==
    { <<"Extraction Agent", "">>,
      <<"Email Agent", "email.read">>,
      <<"General", "">> }

\* (agent, tool) pairs a step of a replan may name
ReplanCapabilities ==
    { <<"Extraction Agent", "">>,
      <<"General", "">> }

\* (agent, tool) pairs a subtask with dependencies may name
DepCapabilities ==
    { <<"Validator Agent", "">>,
      <<"General", "">> }

\* tool_name.startswith("email")
StartsWithEmail(tool_name) == tool_name \in {"email.read", "email.send"}

\* "extraction" in agent_name.lower()
ContainsExtraction(agent_name) == agent_name \in {"Extraction Agent"}

\* "validator" in agent_name.lower()
ContainsValidator(agent_name) == agent_name \in {"Validator Agent"}

\* mcp_registry._tools after _register_tools: EmailTool's definition name
RegisteredTools == {"read_email"}

\* a step of an execution_plan without dependencies
Step(id, cap) ==
    [step |-> id, agent |-> cap[1], tool |-> cap[2], dependencies |-> {}]

\* a step (subtask) carrying a dependencies list
DepStep(id, cap, deps) ==
    [step |-> id, agent |-> cap[1], tool |-> cap[2], dependencies |-> deps]

Steps == { Step(i, c) : i \in TaskIds, c \in Capabilities }

ReplanSteps == { Step(i, c) : i \in TaskIds, c \in ReplanCapabilities }

\* subtasks with at most one dependency (on itself, on the other task, or none)
DepSteps ==
    { DepStep(i, c, d) : i \in TaskIds,
                         c \in DepCapabilities,
                         d \in {{}} \cup { {j} : j \in TaskIds } }

SeqsUpTo(S, n) == UNION { [1..k -> S] : k \in 0..n }

----------------------------------------------------------------------------
(* Plans *)

\* no plan yet
NoPlan ==
    [kind |-> "none", requires_clarification |-> FALSE,
     clarification_questions |-> <<>>, execution_plan |-> <<>>]

\* a plan parsed from the model's JSON answer
LlmPlan(clarify, steps) ==
    [kind |-> "llm", requires_clarification |-> clarify,
     clarification_questions |-> IF clarify THEN <<"question">> ELSE <<>>,
     execution_plan |-> steps]

\* PlannerAgent._create_basic_plan: one step for the agent "General", no tool
_create_basic_plan ==
    [kind |-> "basic", requires_clarification |-> FALSE,
     clarification_questions |-> <<>>,
     execution_plan |-> << Step(1, <<"General", "">>) >>]

\* PlannerAgent._create_error_plan(error_message)
_create_error_plan(error_message) ==
    [kind |-> "error", requires_clarification |-> TRUE,
     clarification_questions |-> <<error_message>>,
     execution_plan |-> <<>>]

\* answers of the planner that parse and pass _validate_plan
Plans ==
    { LlmPlan(c, s) : c \in BOOLEAN, s \in SeqsUpTo(Steps, MaxSteps) }

\* answers of the planner whose subtasks carry dependencies
DepPlans ==
    { LlmPlan(FALSE, s) : s \in SeqsUpTo(DepSteps, MaxSteps) }

\* answers of the replanner that parse (replan does not validate them)
Replans ==
    { LlmPlan(FALSE, s) : s \in SeqsUpTo(ReplanSteps, MaxReplanSteps) }

----------------------------------------------------------------------------
(* Executors: what one step's dispatch yields. *)

\* the empty / absent string
NoText == <<>>

\* a result dict: its "success" key ("absent" when the dict has none), its
\* "error" key and, for a tool, the "error" key of the nested "result" dict
ResultDict(success, error, inner_error) ==
    [success |-> success, error |-> error, inner_error |-> inner_error]

\* the body of MCPToolRegistry.execute_tool; `found` is get_tool's answer and
\* `outcome` what the checks and the tool do once the tool is found
ToolAnswer(tool_name, found, outcome) ==
    IF ~found
    THEN ResultDict("False", <<"Tool '", tool_name, "' not found">>, NoText)
    ELSE CASE outcome = "denied" ->
                ResultDict("False", <<"Insufficient permissions for tool '", tool_name, "'">>, NoText)
           [] outcome = "bad_params" ->
                ResultDict("False", <<"Invalid parameters for tool '", tool_name, "'">>, NoText)
           [] outcome = "raise" ->
                ResultDict("False", <<"str(e)">>, NoText)
           [] outcome = "tool_error" ->
                ResultDict("True", NoText, <<"Gmail not authenticated. Please complete OAuth flow.">>)
           [] OTHER ->
                ResultDict("True", NoText, NoText)

\* MCPToolRegistry.execute_tool on the registry _register_tools leaves
execute_tool(tool_name, outcome) ==
    ToolAnswer(tool_name, tool_name \in RegisteredTools, outcome)

\* ExtractionAgent.extract: a parsed answer, the JSONDecodeError fallback
\* (a dict with an "error" key), or the model call raising
extract(outcome) ==
    IF outcome = "error_result"
    THEN ResultDict("absent", <<"Failed to parse extraction result">>, NoText)
    ELSE ResultDict("absent", NoText, NoText)

\* ValidationResult.to_dict: no "error" key, whatever is_valid is
validate(outcome) == ResultDict("absent", NoText, NoText)

\* mutant: the else branch answers without naming the agent and the tool
UnknownAgentResult_Unnamed(agent_name, tool_name) ==
    ResultDict("absent", <<"Unknown agent/tool">>, NoText)

\* the else branch of _execute_plan's dispatch
UnknownAgentResult(agent_name, tool_name) ==
    ResultDict("absent", <<"Unknown agent/tool: ", agent_name, "/", tool_name>>, NoText)

\* the if / elif chain of _execute_plan: which executor a step goes to
Route(step) ==
    IF step.tool # "" /\ StartsWithEmail(step.tool) THEN "mcp"
    ELSE IF ContainsExtraction(step.agent) THEN "extraction"
    ELSE IF ContainsValidator(step.agent) THEN "validator"
    ELSE "unknown"

\* what the executor a step is routed to may do
Outcomes(step) ==
    CASE Route(step) = "mcp" ->
            IF step.tool \in RegisteredTools
            THEN {"ok", "tool_error", "denied", "bad_params", "raise"}
            ELSE {"none"}
      [] Route(step) = "extraction" -> {"ok", "error_result", "raise"}
      [] Route(step) = "validator" -> {"ok", "raise"}
      [] OTHER -> {"none"}

\* the body of the try block up to `result = ...`: the result dict, or the
\* exception the awaited executor raised
RunStep(step, outcome) ==
    CASE Route(step) = "mcp" ->
            [raised |-> FALSE, result |-> execute_tool(step.tool, outcome)]
      [] Route(step) = "extraction" ->
            [raised |-> outcome = "raise", result |-> extract(outcome)]
      [] Route(step) = "validator" ->
            [raised |-> outcome = "raise", result |-> validate(outcome)]
      [] OTHER ->
            [raised |-> FALSE, result |-> UnknownAgentResult(step.agent, step.tool)]

\* "success" if not result.get("error") else "failed"
StatusOf(result) == IF result.error = NoText THEN "success" ELSE "failed"

\* the entry appended for a step whose try block completed
ResultEntry(step, result) ==
    [step |-> step.step, status |-> StatusOf(result),
     result |-> result, error |-> NoText]

\* the entry appended by `except Exception as e`
ErrorEntry(step) ==
    [step |-> step.step, status |-> "error",
     result |-> ResultDict("absent", NoText, NoText), error |-> <<"str(e)">>]

\* mutant: the dispatch without its try / except
Dispatch_NoTry(step, outcome) ==
    LET r == RunStep(step, outcome)
    IN  IF r.raised
        THEN [aborts |-> TRUE, entry |-> ErrorEntry(step)]
        ELSE [aborts |-> FALSE, entry |-> ResultEntry(step, r.result)]

\* one iteration of _execute_plan's for loop: try / except around the
\* dispatch; `aborts` tells whether an exception leaves the loop
Dispatch(step, outcome) ==
    LET r == RunStep(step, outcome)
    IN  IF r.raised
        THEN [aborts |-> FALSE, entry |-> ErrorEntry(step)]
        ELSE [aborts |-> FALSE, entry |-> ResultEntry(step, r.result)]

\* mutant: the entry put at the head of the list
AppendResult_Prepend(results, entry) == <<entry>> \o results

\* execution_results.append({...})
AppendResult(results, entry) == Append(results, entry)

\* mutant: only the status failed asks for a replan
_needs_replanning_FailedOnly(results) ==
    \E i \in DOMAIN results : results[i].status = "failed"

\* _needs_replanning
_needs_replanning(results) ==
    \E i \in DOMAIN results : results[i].status \in {"failed", "error"}

----------------------------------------------------------------------------
(* process_message *)

\* the plan the running _execute_plan was called with
CurrentPlan == IF round = 2 THEN new_plan ELSE plan

\* no OrchestrationResult yet
NoResponse ==
    [kind |-> "none", success |-> FALSE, plan |-> NoPlan,
     execution_results |-> <<>>, executed_steps |-> <<>>, error |-> NoText]

\* the OrchestrationResult of the clarification return
ClarificationResponse(p) ==
    [kind |-> "clarification", success |-> FALSE, plan |-> p,
     execution_results |-> <<>>, executed_steps |-> <<>>, error |-> NoText]

\* the OrchestrationResult of the normal return: metadata carries the local
\* `plan` and `execution_results`, executed_steps is execution_results
CompletedResponse(p, results) ==
    [kind |-> "completed", success |-> TRUE, plan |-> p,
     execution_results |-> results, executed_steps |-> results, error |-> NoText]

\* the OrchestrationResult of the except branch; `source` is the call that raised
ErrorResponse(source) ==
    [kind |-> "error", success |-> FALSE, plan |-> NoPlan,
     execution_results |-> <<>>, executed_steps |-> <<>>,
     error |-> <<"I encountered an error: ", source>>]

\* mutant: process_message without its except branch
HandleException_Reraise(source) ==
    [escapes |-> TRUE, state |-> "active", response |-> NoResponse]

\* `except Exception as e` of process_message
HandleException(source) ==
    [escapes |-> FALSE, state |-> "errored", response |-> ErrorResponse(source)]

\* mutant: the replanning test as a loop, applied after every execution
Evaluated_EveryRound(r) == TRUE

\* the `if self._needs_replanning(...)` of Step 4 follows the first
\* _execute_plan only; the results of the second go straight to Step 5
Evaluated(r) == r = 1

\* mutant: the clarification test left out
NeedsClarification_Ignored(p) == FALSE

\* plan.get("requires_clarification")
NeedsClarification(p) == p.requires_clarification

\* the language model's answers to the planner: JSON with the required keys,
\* JSON without them, or text that is no JSON
PlannerAnswers ==
    { [parse |-> "json", plan |-> p] : p \in Plans }
      \cup { [parse |-> "invalid", plan |-> NoPlan], [parse |-> "text", plan |-> NoPlan] }

\* the same, with subtasks that carry dependencies
DepPlannerAnswers == { [parse |-> "json", plan |-> p] : p \in DepPlans }

\* the language model's answers to the replanner
ReplannerAnswers ==
    { [parse |-> "json", plan |-> p] : p \in Replans }
      \cup { [parse |-> "text", plan |-> NoPlan] }

\* PlannerAgent.plan after the model answered
PlanOf(answer) ==
    CASE answer.parse = "text" -> _create_basic_plan
      [] answer.parse = "invalid" -> _create_error_plan("Invalid plan structure")
      [] OTHER -> answer.plan

\* PlannerAgent.replan after the model answered
ReplanOf(answer) ==
    IF answer.parse = "text"
    THEN _create_error_plan("Could not create recovery plan")
    ELSE answer.plan

\* does a result with status success for step `id` exist (in this round or the prior one)
HasSucceeded(id) ==
    \/ \E i \in DOMAIN execution_results :
          execution_results[i].step = id /\ execution_results[i].status = "success"
    \/ \E i \in DOMAIN prev_results :
          prev_results[i].step = id /\ prev_results[i].status = "success"

\* ids with a success result in the results handed to the replanner
SucceededBefore ==
    { prev_results[i].step : i \in { j \in DOMAIN prev_results : prev_results[j].status = "success" } }

\* the requests the server receives
Requests == {1, 2}

\* global_state.get("current_plan", {}) when the key is absent
AbsentPlan == [request |-> 0, refined |-> FALSE]

\* global_state["task_results"] without an entry for the task
AbsentResult == [request |-> 0, value |-> "absent"]

\* self.global_state = {} of PlannerAgent.__init__
EmptyGlobalState ==
    [current_plan |-> AbsentPlan, request |-> 0,
     has_task_results |-> FALSE,
     task_results |-> [t \in TaskIds |-> AbsentResult]]

\* the threads that call update_state at the same time
Writers == {1, 2}

\* a writer that has not called update_state
IdleWriter == [pc |-> "idle", task |-> 0, value |-> "absent"]

\* a request that has not called refine_plan
NoRead == [plan |-> 0, results |-> {}]

\* names a tool may be registered under: EmailTool's definition name and
\* the tool name of the planner's prompt
ToolNames == {"read_email", "email.read"}

\* ToolScope values the contexts and the tools use
Scopes == {"email.read", "db.read"}

\* keys of the parameters dict
ParameterNames == {"action", "query"}

\* get_tool's None
NoTool == [registered |-> FALSE, scopes |-> {}, required |-> {}]

\* a ToolDefinition: its scopes and parameters["required"]
ToolDefinition(scopes, required) ==
    [registered |-> TRUE, scopes |-> scopes, required |-> required]

\* EmailTool.__init__
EmailToolDefinition == ToolDefinition({"email.read"}, {"action"})

\* the definitions register_tool is called with
ToolDefinitions ==
    { EmailToolDefinition,
      ToolDefinition({}, {}),
      ToolDefinition({"email.read", "db.read"}, {"action", "query"}) }

\* permissions of a context made by create_user_context
DefaultPermissions == <<"email.read", "db.read">>

\* no execute_tool call yet
NoToolCall ==
    [called |-> FALSE, tool_name |-> "", parameters |-> {}, tool |-> NoTool,
     permissions |-> <<>>, behaviour |-> "none", invoked |-> FALSE,
     result |-> ResultDict("absent", NoText, NoText), status |-> "none"]

\* UserContext.has_permission
has_permission(perms, permission) == \E i \in DOMAIN perms : perms[i] = permission

\* mutant: one scope of the tool is enough
validate_context_AnyScope(tool, perms) ==
    tool.scopes = {} \/ \E scope \in tool.scopes : has_permission(perms, scope)

\* MCPTool.validate_context
validate_context(tool, perms) ==
    \A scope \in tool.scopes : has_permission(perms, scope)

\* MCPTool.validate_parameters
validate_parameters(tool, parameters) ==
    \A param \in tool.required : param \in parameters

\* the checks of execute_tool before the try block
GatedOutcome(tool, perms, parameters, behaviour) ==
    IF ~validate_context(tool, perms) THEN "denied"
    ELSE IF ~validate_parameters(tool, parameters) THEN "bad_params"
    ELSE behaviour

\* the (user_id, service) pairs tokens are kept for
TokenPairs == {1, 2}

\* the access tokens handed to store_oauth_token
AccessTokens == {"ya29.token"}

\* the expires_in arguments: 0 (or None) for a token that does not expire
ExpiresIn == {0, 1}

\* the last second of the clock
MaxTime == 2

\* the Fernet keys a process may run with: the configured key, or the key
\* SecurityManager.__init__ generates when the configured one is not valid
CipherKeys == {1, 2}

\* expires_at = None
NoExpiry == -1

\* no entry under the key
AbsentEntry == [kind |-> "absent", access_token |-> <<>>, expires_at |-> NoExpiry]

\* JSON null
JsonNull == <<>>

\* no file for the pair (os.path.exists is False)
AbsentFile == [kind |-> "absent", access_token |-> <<>>, expires_at |-> JsonNull]

\* the key is in _token_store and its value is None
NoneEntry == [kind |-> "None", access_token |-> <<>>, expires_at |-> NoExpiry]

\* no get_oauth_token call yet
NoLookup ==
    [kind |-> "idle", pair |-> 0, missing |-> FALSE, expired |-> FALSE,
     access_token |-> <<>>]

\* the longest recipient list
MaxRecipients == 2

\* a recipient dict either carries the channel's address field or does not
RecipientKinds == {"address", "no_address"}

\* the recipient lists handed to the send methods
RecipientLists == UNION { [1..n -> RecipientKinds] : n \in 0..MaxRecipients }

\* the public send methods
SendMethods == {"send_sms", "send_email", "send_push_notification", "send_bulk_alert"}

\* the channel arguments of send_bulk_alert; "fax" is a channel it does not know
Channels == {"sms", "email", "push", "fax"}

\* the module before `NotificationService()` ran
UnbuiltService == [built |-> FALSE, twilio_client |-> FALSE, smtp_configured |-> FALSE]

\* no send_* call yet
NoCall ==
    [pc |-> "idle", method |-> "none", channel |-> "none", recipients |-> <<>>,
     i |-> 1, sent |-> 0, failed |-> 0, errors |-> <<>>]

\* no status returned yet
NoStatus == [sent |-> 0, failed |-> 0, error |-> "none", errors |-> <<>>]

\* the WebSocket objects of the clients
Connections == {1, 2, 3}

\* no broadcast_update call yet
NoBroadcast ==
    [pc |-> "idle", i |-> 1, connection |-> 0, snapshot |-> {},
     attempted |-> {}, failed |-> {}]

\* conversation ids (sender and day) the webhook receives messages for
Conversations == {1, 2}

\* the threads of the webhook that call create_user_context at the same time
Callers == {1, 2, 3}

\* a caller that has not called create_user_context
IdleCaller == [pc |-> "idle", conversation |-> 0, returned |-> 0]

Init ==
    /\ pc = "start"
    /\ plan = NoPlan
    /\ new_plan = NoPlan
    /\ round = 0
    /\ idx = 1
    /\ execution_results = <<>>
    /\ prev_results = <<>>
    /\ dispatch_log = <<>>
    /\ planning_rounds = 0
    /\ response = NoResponse
    /\ conversation_state = "active"
    /\ escaped = FALSE
    /\ global_state = EmptyGlobalState
    /\ active = 0
    /\ req_pc = [r \in Requests |-> "idle"]
    /\ reads = [r \in Requests |-> NoRead]
    /\ writers = [w \in Writers |-> IdleWriter]
    /\ _tools = [n \in ToolNames |-> IF n \in RegisteredTools THEN EmailToolDefinition ELSE NoTool]
    /\ permissions = DefaultPermissions
    /\ tool_call = NoToolCall
    /\ _contexts = [c \in Conversations |-> 0]
    /\ ctx_callers = [k \in Callers |-> IdleCaller]
    /\ ctx_created = {}
    /\ _token_store = [p \in TokenPairs |-> AbsentEntry]
    /\ token_files = [p \in TokenPairs |-> AbsentFile]
    /\ cipher = 1
    /\ now = 0
    /\ token_lookup = NoLookup
    /\ notification_service = UnbuiltService
    /\ notif_call = NoCall
    /\ notif_status = NoStatus
    /\ delivery_log = <<>>
    /\ active_connections = <<>>
    /\ endpoints = {}
    /\ broadcast = NoBroadcast
    /\ removed_twice = FALSE

\* the except branch: update_state(ERRORED) and the error result
ExceptBranch(source) ==
    LET h == HandleException(source)
    IN  /\ pc' = "done"
        /\ response' = h.response
        /\ conversation_state' = h.state
        /\ escaped' = h.escapes

\* Step 1: memory_manager.get_memory_snapshot returned
GetMemorySnapshot ==
    /\ pc = "start"
    /\ pc' = "planning"
    /\ UNCHANGED << plan, new_plan, round, idx, execution_results, prev_results,
                    dispatch_log, planning_rounds, response, conversation_state, escaped >>
    /\ UNCHANGED outside_orch

\* Step 2: planner_agent.plan returned; the clarification return, or
\* _execute_plan(plan) starts
PlannerReturns(answer) ==
    /\ pc = "planning"
    /\ planning_rounds' = planning_rounds + 1
    /\ plan' = PlanOf(answer)
    /\ IF NeedsClarification(plan')
       THEN /\ pc' = "done"
            /\ response' = ClarificationResponse(plan')
            /\ UNCHANGED << round, idx, execution_results >>
       ELSE /\ pc' = "executing"
            /\ round' = 1
            /\ idx' = 1
            /\ execution_results' = <<>>
            /\ UNCHANGED response
    /\ UNCHANGED << new_plan, prev_results, dispatch_log, conversation_state, escaped >>
    /\ UNCHANGED outside_orch

\* one iteration of _execute_plan's for loop
ExecuteStep ==
    /\ pc = "executing"
    /\ idx <= Len(CurrentPlan.execution_plan)
    /\ LET step == CurrentPlan.execution_plan[idx]
       IN  \E outcome \in Outcomes(step) :
             LET d == Dispatch(step, outcome)
             IN  /\ dispatch_log' = Append(dispatch_log,
                        [round |-> round, step |-> step.step, task |-> step,
                         unmet |-> { dep \in step.dependencies : ~HasSucceeded(dep) },
                         aborted |-> d.aborts,
                         outcome |-> outcome, status |-> d.entry.status])
                 /\ IF d.aborts
                    THEN /\ ExceptBranch("executor")
                         /\ UNCHANGED << idx, execution_results >>
                    ELSE /\ execution_results' = AppendResult(execution_results, d.entry)
                         /\ idx' = idx + 1
                         /\ UNCHANGED << pc, response, conversation_state, escaped >>
    /\ UNCHANGED << plan, new_plan, round, prev_results, planning_rounds >>
    /\ UNCHANGED outside_orch

\* _execute_plan returns its list
ExecutePlanReturns ==
    /\ pc = "executing"
    /\ idx > Len(CurrentPlan.execution_plan)
    /\ pc' = IF Evaluated(round) THEN "evaluating" ELSE "responding"
    /\ UNCHANGED << plan, new_plan, round, idx, execution_results, prev_results,
                    dispatch_log, planning_rounds, response, conversation_state, escaped >>
    /\ UNCHANGED outside_orch

\* Step 4: if self._needs_replanning(execution_results)
Evaluate ==
    /\ pc = "evaluating"
    /\ pc' = IF _needs_replanning(execution_results) THEN "replanning" ELSE "responding"
    /\ UNCHANGED << plan, new_plan, round, idx, execution_results, prev_results,
                    dispatch_log, planning_rounds, response, conversation_state, escaped >>
    /\ UNCHANGED outside_orch

\* planner_agent.replan returned a dict; _execute_plan(new_plan) starts
ReplannerReturns(answer) ==
    /\ pc = "replanning"
    /\ planning_rounds' = planning_rounds + 1
    /\ new_plan' = ReplanOf(answer)
    /\ prev_results' = execution_results
    /\ execution_results' = <<>>
    /\ round' = 2
    /\ idx' = 1
    /\ pc' = "executing"
    /\ UNCHANGED << plan, dispatch_log, response, conversation_state, escaped >>
    /\ UNCHANGED outside_orch

\* planner_agent.replan returned JSON that is no dict (json.loads is not
\* validated): new_plan.get raises in _execute_plan, outside its try
ReplannerReturnsNonDict ==
    /\ pc = "replanning"
    /\ planning_rounds' = planning_rounds + 1
    /\ ExceptBranch("_execute_plan")
    /\ UNCHANGED << plan, new_plan, round, idx, execution_results, prev_results,
                    dispatch_log >>
    /\ UNCHANGED outside_orch

\* Step 5: _generate_response returned
GenerateResponse ==
    /\ pc = "responding"
    /\ pc' = "saving"
    /\ UNCHANGED << plan, new_plan, round, idx, execution_results, prev_results,
                    dispatch_log, planning_rounds, response, conversation_state, escaped >>
    /\ UNCHANGED outside_orch

\* Step 6 and the return: add_interaction, update_state(COMPLETED), result
UpdateMemoryAndReturn ==
    /\ pc = "saving"
    /\ pc' = "done"
    /\ conversation_state' = "completed"
    /\ response' = CompletedResponse(plan, execution_results)
    /\ UNCHANGED << plan, new_plan, round, idx, execution_results, prev_results,
                    dispatch_log, planning_rounds, escaped >>
    /\ UNCHANGED outside_orch

\* an awaited collaborator raises: the memory manager, the planner's or the
\* replanner's model call, the response model call, add_interaction
CollaboratorRaises ==
    /\ pc \in {"start", "planning", "replanning", "responding", "saving"}
    /\ planning_rounds' =
          IF pc \in {"planning", "replanning"} THEN planning_rounds + 1 ELSE planning_rounds
    /\ ExceptBranch(pc)
    /\ UNCHANGED << plan, new_plan, round, idx, execution_results, prev_results,
                    dispatch_log >>
    /\ UNCHANGED outside_orch

Next ==
    \/ GetMemorySnapshot
    \/ \E answer \in PlannerAnswers : PlannerReturns(answer)
    \/ ExecuteStep
    \/ ExecutePlanReturns
    \/ Evaluate
    \/ \E answer \in ReplannerAnswers : ReplannerReturns(answer)
    \/ ReplannerReturnsNonDict
    \/ GenerateResponse
    \/ UpdateMemoryAndReturn
    \/ CollaboratorRaises

Spec == Init /\ [][Next]_vars

\* the same run, the planner answering with subtasks that carry dependencies
NextDeps ==
    \/ GetMemorySnapshot
    \/ \E answer \in DepPlannerAnswers : PlannerReturns(answer)
    \/ ExecuteStep
    \/ ExecutePlanReturns
    \/ Evaluate
    \/ \E answer \in ReplannerAnswers : ReplannerReturns(answer)
    \/ ReplannerReturnsNonDict
    \/ GenerateResponse
    \/ UpdateMemoryAndReturn
    \/ CollaboratorRaises

SpecDeps == Init /\ [][NextDeps]_vars

\* the executors _execute_plan awaits: a registered tool's execute, the
\* extraction agent, the validator agent
Awaited(step) ==
    \/ Route(step) = "mcp" /\ step.tool \in RegisteredTools
    \/ Route(step) \in {"extraction", "validator"}

\* the awaited executor of the current step never responds: the await has
\* no timeout, so the for loop stays at this step
ExecutorNeverResponds ==
    /\ pc = "executing"
    /\ idx <= Len(CurrentPlan.execution_plan)
    /\ Awaited(CurrentPlan.execution_plan[idx])
    /\ pc' = "awaiting"
    /\ dispatch_log' = Append(dispatch_log,
           [round |-> round, step |-> CurrentPlan.execution_plan[idx].step,
            task |-> CurrentPlan.execution_plan[idx],
            unmet |-> { dep \in CurrentPlan.execution_plan[idx].dependencies :
                          ~HasSucceeded(dep) },
            aborted |-> FALSE, outcome |-> "no_response", status |-> "none"])
    /\ UNCHANGED << plan, new_plan, round, idx, execution_results, prev_results,
                    planning_rounds, response, conversation_state, escaped >>
    /\ UNCHANGED outside_orch

\* the same run with executors that may fail to respond
NextDeadline ==
    \/ Next
    \/ ExecutorNeverResponds

SpecDeadline == Init /\ [][NextDeadline]_vars

\* the (agent, tool) pairs of either vocabulary
ScenarioCapabilities == Capabilities \cup DepCapabilities

\* plans of two subtasks, the first without dependencies, the second
\* depending on the first
ScenarioPlans ==
    { LlmPlan(FALSE, << DepStep(1, a, {}), DepStep(2, b, {1}) >>) :
        a \in ScenarioCapabilities, b \in ScenarioCapabilities }

ScenarioPlannerAnswers == { [parse |-> "json", plan |-> p] : p \in ScenarioPlans }

\* answers of the replanner to such a plan: up to as many steps as the plan has
ScenarioReplans ==
    { LlmPlan(FALSE, s) : s \in SeqsUpTo(ReplanSteps, MaxSteps) }

ScenarioReplannerAnswers ==
    { [parse |-> "json", plan |-> p] : p \in ScenarioReplans }
      \cup { [parse |-> "text", plan |-> NoPlan] }

\* the same run on a plan of two subtasks, the second depending on the first
NextScenario ==
    \/ GetMemorySnapshot
    \/ \E answer \in ScenarioPlannerAnswers : PlannerReturns(answer)
    \/ ExecuteStep
    \/ ExecutePlanReturns
    \/ Evaluate
    \/ \E answer \in ScenarioReplannerAnswers : ReplannerReturns(answer)
    \/ ReplannerReturnsNonDict
    \/ GenerateResponse
    \/ UpdateMemoryAndReturn
    \/ CollaboratorRaises

SpecScenario == Init /\ [][NextScenario]_vars

----------------------------------------------------------------------------
(* Requests served through the one orchestrator and its PlannerAgent: the   *)
(* handlers of the API call orchestrator.run synchronously, one request at  *)
(* a time; the planner's methods work on the instance's global_state.       *)

\* what the model call of analyze_request does: mock mode returns the mock
\* plan before the state update, a parsed answer is stored, an exception is
\* answered with an error plan
AnalyzeOutcomes == {"mock", "plan", "raise"}

\* what the model call of refine_plan does
RefineOutcomes == {"refined", "raise"}

\* values a task result may have
ResultValues == {"ok", "failed"}

\* a handler of the API passes request r to the orchestrator
StartRequest(r) ==
    /\ active = 0
    /\ req_pc[r] = "idle"
    /\ active' = r
    /\ req_pc' = [req_pc EXCEPT ![r] = "analyzing"]
    /\ UNCHANGED << global_state, reads, outside_request >>
    /\ UNCHANGED writers

\* PlannerAgent.analyze_request(request, context) for request r
analyze_request(r, outcome) ==
    /\ active = r
    /\ req_pc[r] = "analyzing"
    /\ global_state' =
          IF outcome = "plan"
          THEN [global_state EXCEPT !.current_plan = [request |-> r, refined |-> FALSE],
                                    !.request = r]
          ELSE global_state
    /\ req_pc' = [req_pc EXCEPT ![r] = "running"]
    /\ UNCHANGED << active, reads, outside_request >>
    /\ UNCHANGED writers

\* PlannerAgent.update_state(task_id, result) while request r runs
update_state(r, task_id, value) ==
    /\ active = r
    /\ req_pc[r] = "running"
    /\ global_state' =
          [global_state EXCEPT !.has_task_results = TRUE,
                               !.task_results[task_id] = [request |-> r, value |-> value]]
    /\ UNCHANGED << active, req_pc, reads, outside_request >>
    /\ UNCHANGED writers

\* PlannerAgent.refine_plan(feedback) while request r runs
refine_plan(r, outcome) ==
    /\ active = r
    /\ req_pc[r] = "running"
    /\ reads' = [reads EXCEPT ![r] =
          [plan |-> global_state.current_plan.request,
           results |-> { global_state.task_results[t].request : t \in TaskIds } \ {0}]]
    /\ global_state' =
          IF outcome = "refined"
          THEN [global_state EXCEPT !.current_plan = [request |-> r, refined |-> TRUE]]
          ELSE global_state
    /\ UNCHANGED << active, req_pc, outside_request >>
    /\ UNCHANGED writers

\* orchestrator.run returns for request r
FinishRequest(r) ==
    /\ active = r
    /\ req_pc[r] = "running"
    /\ active' = 0
    /\ req_pc' = [req_pc EXCEPT ![r] = "finished"]
    /\ UNCHANGED << global_state, reads, outside_request >>
    /\ UNCHANGED writers

NextRequests ==
    \/ \E r \in Requests : StartRequest(r)
    \/ \E r \in Requests, outcome \in AnalyzeOutcomes : analyze_request(r, outcome)
    \/ \E r \in Requests, t \in TaskIds, v \in ResultValues : update_state(r, t, v)
    \/ \E r \in Requests, outcome \in RefineOutcomes : refine_plan(r, outcome)
    \/ \E r \in Requests : FinishRequest(r)

SpecRequests == Init /\ [][NextRequests]_vars

----------------------------------------------------------------------------
(* update_state statement by statement, called by concurrent writers: the   *)
(* method holds no lock, so its statements interleave.                      *)

\* writer w calls update_state(task_id, result)
UpdateStateCalled(w, task_id, value) ==
    /\ writers[w].pc = "idle"
    /\ writers' = [writers EXCEPT ![w] = [pc |-> "check", task |-> task_id, value |-> value]]
    /\ UNCHANGED << global_state, active, req_pc, reads, outside_request >>

\* if "task_results" not in self.global_state
UpdateStateChecks(w) ==
    /\ writers[w].pc = "check"
    /\ writers' = [writers EXCEPT ![w].pc =
          IF global_state.has_task_results THEN "write" ELSE "create"]
    /\ UNCHANGED << global_state, active, req_pc, reads, outside_request >>

\* self.global_state["task_results"] = {}
UpdateStateCreates(w) ==
    /\ writers[w].pc = "create"
    /\ global_state' = [global_state EXCEPT !.has_task_results = TRUE,
                                            !.task_results = [t \in TaskIds |-> AbsentResult]]
    /\ writers' = [writers EXCEPT ![w].pc = "write"]
    /\ UNCHANGED << active, req_pc, reads, outside_request >>

\* self.global_state["task_results"][task_id] = result
UpdateStateWrites(w) ==
    /\ writers[w].pc = "write"
    /\ global_state' = [global_state EXCEPT !.task_results[writers[w].task] =
                            [request |-> w, value |-> writers[w].value]]
    /\ writers' = [writers EXCEPT ![w].pc = "done"]
    /\ UNCHANGED << active, req_pc, reads, outside_request >>

NextWriters ==
    \/ \E w \in Writers, t \in TaskIds, v \in ResultValues : UpdateStateCalled(w, t, v)
    \/ \E w \in Writers : UpdateStateChecks(w)
    \/ \E w \in Writers : UpdateStateCreates(w)
    \/ \E w \in Writers : UpdateStateWrites(w)

SpecWriters == Init /\ [][NextWriters]_vars

----------------------------------------------------------------------------
(* The tool registry and the permissions of the context it checks. *)

\* what a tool's execute does when it is invoked
ToolBehaviours == {"ok", "tool_error", "raise"}

\* MCPToolRegistry.register_tool
register_tool(name, definition) ==
    /\ _tools' = [_tools EXCEPT ![name] = definition]
    /\ UNCHANGED << permissions, tool_call, outside_tool >>

\* MCPToolRegistry.unregister_tool
unregister_tool(name) ==
    /\ _tools' = IF _tools[name].registered THEN [_tools EXCEPT ![name] = NoTool] ELSE _tools
    /\ UNCHANGED << permissions, tool_call, outside_tool >>

\* UserContext.add_permission
add_permission(permission) ==
    /\ permissions' = IF has_permission(permissions, permission)
                       THEN permissions
                       ELSE Append(permissions, permission)
    /\ UNCHANGED << _tools, tool_call, outside_tool >>

\* UserContext.remove_permission: list.remove drops the first occurrence
remove_permission(permission) ==
    /\ permissions' =
          IF has_permission(permissions, permission)
          THEN LET first == CHOOSE i \in DOMAIN permissions :
                              /\ permissions[i] = permission
                              /\ \A j \in 1..(i - 1) : permissions[j] # permission
               IN  [k \in 1..(Len(permissions) - 1) |->
                      IF k < first THEN permissions[k] ELSE permissions[k + 1]]
          ELSE permissions
    /\ UNCHANGED << _tools, tool_call, outside_tool >>

\* MCPToolRegistry.execute_tool(tool_name, context, parameters), and the
\* status _execute_plan derives from its answer
ExecuteTool(tool_name, parameters, behaviour) ==
    LET tool == _tools[tool_name]
        outcome == GatedOutcome(tool, permissions, parameters, behaviour)
        result == ToolAnswer(tool_name, tool.registered, outcome)
    IN  /\ tool_call' =
              [called |-> TRUE, tool_name |-> tool_name, parameters |-> parameters,
               tool |-> tool, permissions |-> permissions, behaviour |-> behaviour,
               invoked |-> tool.registered /\ outcome \notin {"denied", "bad_params"},
               result |-> result, status |-> StatusOf(result)]
        /\ UNCHANGED << _tools, permissions, outside_tool >>

NextTools ==
    \/ \E n \in ToolNames, d \in ToolDefinitions : register_tool(n, d)
    \/ \E n \in ToolNames : unregister_tool(n)
    \/ \E p \in Scopes : add_permission(p)
    \/ \E p \in Scopes : remove_permission(p)
    \/ \E n \in ToolNames, ps \in SUBSET ParameterNames, b \in ToolBehaviours :
          ExecuteTool(n, ps, b)

SpecTools == Init /\ [][NextTools]_vars

----------------------------------------------------------------------------
(* Several messages of one conversation: create_user_context hands the      *)
(* stored context to every process_message call of the day.                 *)

\* MessageIngestionService.process_message calls orchestrator.process_message
\* for the next message with the context of the call that returned: the
\* locals of the call are fresh, the context keeps its state
NextMessage ==
    /\ pc = "done"
    /\ pc' = "start"
    /\ plan' = NoPlan
    /\ new_plan' = NoPlan
    /\ round' = 0
    /\ idx' = 1
    /\ execution_results' = <<>>
    /\ prev_results' = <<>>
    /\ dispatch_log' = <<>>
    /\ planning_rounds' = 0
    /\ response' = NoResponse
    /\ escaped' = FALSE
    /\ UNCHANGED conversation_state
    /\ UNCHANGED outside_orch

NextConversation ==
    \/ Next
    \/ NextMessage

SpecConversation == Init /\ [][NextConversation]_vars

----------------------------------------------------------------------------
(* create_user_context statement by statement: the webhook's handlers run   *)
(* in the server's threads and the method holds no lock. A UserContext      *)
(* object is named by the caller that created it.                           *)

\* whatsapp_webhook calls create_user_context for a message of conversation c
CreateUserContextCalled(k, c) ==
    /\ ctx_callers[k].pc = "idle"
    /\ ctx_callers' = [ctx_callers EXCEPT ![k] = [pc |-> "get", conversation |-> c, returned |-> 0]]
    /\ UNCHANGED << _contexts, ctx_created, outside_ctx >>

\* existing_context = context_protocol.get_context(conversation_id);
\* if existing_context: return existing_context
GetContext(k) ==
    /\ ctx_callers[k].pc = "get"
    /\ LET existing == _contexts[ctx_callers[k].conversation]
       IN  ctx_callers' = [ctx_callers EXCEPT ![k] =
              IF existing # 0
              THEN [@ EXCEPT !.pc = "done", !.returned = existing]
              ELSE [@ EXCEPT !.pc = "create"]]
    /\ UNCHANGED << _contexts, ctx_created, outside_ctx >>

\* context = context_protocol.create_context(...); return context
CreateContext(k) ==
    /\ ctx_callers[k].pc = "create"
    /\ _contexts' = [_contexts EXCEPT ![ctx_callers[k].conversation] = k]
    /\ ctx_created' = ctx_created \cup { <<ctx_callers[k].conversation, k>> }
    /\ ctx_callers' = [ctx_callers EXCEPT ![k] = [@ EXCEPT !.pc = "done", !.returned = k]]
    /\ UNCHANGED outside_ctx

NextContexts ==
    \/ \E k \in Callers, c \in Conversations : CreateUserContextCalled(k, c)
    \/ \E k \in Callers : GetContext(k)
    \/ \E k \in Callers : CreateContext(k)

SpecContexts == Init /\ [][NextContexts]_vars

----------------------------------------------------------------------------
(* OAuth2Manager: the token store, its files and the clock *)

\* SecurityManager.encrypt_token: Fernet encryption under the process's key
encrypt_token(key, token) == << "fernet", key, token >>

\* SecurityManager.decrypt_token raises InvalidToken under another key
CanDecrypt(key, encrypted) == encrypted[2] = key

\* SecurityManager.decrypt_token
decrypt_token(key, encrypted) == encrypted[3]

\* _persist_token's isoformat() of a datetime
isoformat(t) == << "iso", t >>

\* _load_token's datetime.fromisoformat
fromisoformat(text) == text[2]

\* _persist_token: the JSON written to the pair's file
Serialized(entry) ==
    [entry EXCEPT !.expires_at =
        IF entry.expires_at # NoExpiry THEN isoformat(entry.expires_at) ELSE JsonNull]

\* _load_token: None when the file does not exist, else the file's JSON with
\* its expires_at parsed
_load_token(pair) ==
    LET token_data == token_files[pair]
    IN  IF token_data = AbsentFile THEN NoneEntry
        ELSE [token_data EXCEPT !.expires_at =
                IF token_data.expires_at # JsonNull
                THEN fromisoformat(token_data.expires_at)
                ELSE NoExpiry]

\* the entry store_oauth_token builds
NewEntry(access_token, expires_in) ==
    [kind |-> "token",
     access_token |-> encrypt_token(cipher, access_token),
     expires_at |-> IF expires_in # 0 THEN now + expires_in ELSE NoExpiry]

\* store_oauth_token(user_id, service, access_token, expires_in=expires_in)
store_oauth_token(pair, access_token, expires_in) ==
    LET entry == NewEntry(access_token, expires_in)
    IN  /\ _token_store' = [_token_store EXCEPT ![pair] = entry]
        /\ token_files' = [token_files EXCEPT ![pair] = Serialized(entry)]
        /\ UNCHANGED << cipher, now, token_lookup, outside_oauth >>

\* `datetime.utcnow() > token_data["expires_at"]`
IsExpired(token_data) ==
    /\ token_data.expires_at # NoExpiry
    /\ now > token_data.expires_at

\* what get_oauth_token answers for the entry it finds under the key after
\* the load: None for no key, AttributeError for token_data = None
\* (None.get), None for an expired token, InvalidToken when the cipher
\* cannot decrypt, else the decrypted token
LookupOutcome(token_data) ==
    IF token_data = AbsentEntry THEN [kind |-> "None", access_token |-> <<>>]
    ELSE IF token_data = NoneEntry THEN [kind |-> "raised", access_token |-> <<>>]
    ELSE IF IsExpired(token_data) THEN [kind |-> "None", access_token |-> <<>>]
    ELSE IF ~CanDecrypt(cipher, token_data.access_token)
    THEN [kind |-> "raised", access_token |-> <<>>]
    ELSE [kind |-> "token",
          access_token |-> decrypt_token(cipher, token_data.access_token)]

\* get_oauth_token(user_id, service)
get_oauth_token(pair) ==
    LET loaded == IF _token_store[pair] = AbsentEntry
                  THEN _load_token(pair)
                  ELSE _token_store[pair]
        outcome == LookupOutcome(loaded)
    IN  /\ _token_store' = [_token_store EXCEPT ![pair] = loaded]
        /\ token_lookup' =
              [kind |-> outcome.kind, pair |-> pair,
               missing |-> (_token_store[pair] \in {AbsentEntry, NoneEntry}
                              /\ token_files[pair] = AbsentFile),
               expired |-> (loaded.kind = "token" /\ IsExpired(loaded)),
               access_token |-> outcome.access_token]
        /\ UNCHANGED << token_files, cipher, now, outside_oauth >>

\* a second passes
ClockTicks ==
    /\ now < MaxTime
    /\ now' = now + 1
    /\ UNCHANGED << _token_store, token_files, cipher, token_lookup, outside_oauth >>

\* the process starts again: `oauth2_manager = OAuth2Manager()` builds an
\* empty _token_store and a SecurityManager with its cipher; the files stay
ProcessRestarts(key) ==
    /\ _token_store' = [p \in TokenPairs |-> AbsentEntry]
    /\ cipher' = key
    /\ UNCHANGED << token_files, now, token_lookup, outside_oauth >>

NextTokens ==
    \/ \E pair \in TokenPairs, access_token \in AccessTokens, expires_in \in ExpiresIn :
          store_oauth_token(pair, access_token, expires_in)
    \/ \E pair \in TokenPairs : get_oauth_token(pair)
    \/ ClockTicks
    \/ \E key \in CipherKeys : ProcessRestarts(key)

SpecTokens == Init /\ [][NextTokens]_vars

----------------------------------------------------------------------------
(* NotificationService: send_sms, send_email, send_push_notification and    *)
(* send_bulk_alert.  The provider's answer to each send is an input.        *)

\* NotificationService.__init__ and the SMTP settings of config
NotificationServiceBuilt(twilio, smtp) ==
    /\ ~notification_service.built
    /\ notification_service' =
          [built |-> TRUE, twilio_client |-> twilio, smtp_configured |-> smtp]
    /\ UNCHANGED << notif_call, notif_status, delivery_log, outside_notif >>

\* the channel a call ends up on: send_bulk_alert dispatches on its argument
ChannelOf(method, channel) ==
    CASE method = "send_sms" -> "sms"
      [] method = "send_email" -> "email"
      [] method = "send_push_notification" -> "push"
      [] OTHER -> channel

\* `if not self.twilio_client` / `if not SMTP_EMAIL or not SMTP_PASSWORD`
Configured(channel) ==
    IF channel = "sms" THEN notification_service.twilio_client
    ELSE notification_service.smtp_configured

\* the status of the early returns: nothing sent, every recipient failed
RefusedStatus(recipients, error) ==
    [sent |-> 0, failed |-> Len(recipients), error |-> error, errors |-> <<>>]

\* send_push_notification: every recipient counts as sent (simulated)
PushStatus(recipients) ==
    [sent |-> Len(recipients), failed |-> 0, error |-> "none", errors |-> <<>>]

\* a send method is called; the early returns answer at once, the sms and
\* email loops start
SendCalled(method, channel, recipients) ==
    LET c == ChannelOf(method, channel)
        call == [pc |-> "returned", method |-> method, channel |-> c,
                 recipients |-> recipients, i |-> 1, sent |-> 0, failed |-> 0,
                 errors |-> <<>>]
    IN  /\ notification_service.built
        /\ notif_call.pc \in {"idle", "returned"}
        /\ method = "send_bulk_alert" \/ channel = ChannelOf(method, channel)
        /\ IF c \notin {"sms", "email", "push"}
           THEN /\ notif_call' = call
                /\ notif_status' = RefusedStatus(recipients, "Unknown channel")
                /\ delivery_log' = <<>>
           ELSE IF c = "push"
           THEN /\ notif_call' = call
                /\ notif_status' = PushStatus(recipients)
                /\ delivery_log' = [k \in 1..Len(recipients) |-> "simulated"]
           ELSE IF ~Configured(c)
           THEN /\ notif_call' = call
                /\ notif_status' = RefusedStatus(recipients, "not configured")
                /\ delivery_log' = <<>>
           ELSE /\ notif_call' = [call EXCEPT !.pc = "sending"]
                /\ notif_status' = NoStatus
                /\ delivery_log' = <<>>
        /\ UNCHANGED << notification_service, outside_notif >>

\* what one pass of the for loop finds: no address, the provider raising,
\* or the send returning
Outcome(recipient, raises) ==
    IF recipient = "no_address" THEN "no_address"
    ELSE IF raises THEN "raised" ELSE "sent"

\* mutant: the except branch without its `failed += 1`
Counted_RaisedUncounted(call, outcome) ==
    [call EXCEPT !.i = @ + 1,
                 !.sent = IF outcome = "sent" THEN @ + 1 ELSE @,
                 !.failed = IF outcome = "no_address" THEN @ + 1 ELSE @,
                 !.errors = IF outcome = "raised" THEN Append(@, call.i) ELSE @]

\* the counters after one pass of the for loop
Counted(call, outcome) ==
    [call EXCEPT !.i = @ + 1,
                 !.sent = IF outcome = "sent" THEN @ + 1 ELSE @,
                 !.failed = IF outcome # "sent" THEN @ + 1 ELSE @,
                 !.errors = IF outcome = "raised" THEN Append(@, call.i) ELSE @]

\* one pass of `for recipient in recipients` of send_sms / send_email
SendToRecipient(raises) ==
    /\ notif_call.pc = "sending"
    /\ notif_call.i <= Len(notif_call.recipients)
    /\ LET outcome == Outcome(notif_call.recipients[notif_call.i], raises)
       IN  /\ notif_call' = Counted(notif_call, outcome)
           /\ delivery_log' = Append(delivery_log, outcome)
    /\ UNCHANGED << notification_service, notif_status, outside_notif >>

\* the return after the loop
SendReturns ==
    /\ notif_call.pc = "sending"
    /\ notif_call.i > Len(notif_call.recipients)
    /\ notif_call' = [notif_call EXCEPT !.pc = "returned"]
    /\ notif_status' = [sent |-> notif_call.sent, failed |-> notif_call.failed,
                        error |-> "none", errors |-> notif_call.errors]
    /\ UNCHANGED << notification_service, delivery_log, outside_notif >>

NextNotifications ==
    \/ \E twilio \in BOOLEAN, smtp \in BOOLEAN : NotificationServiceBuilt(twilio, smtp)
    \/ \E method \in SendMethods, channel \in Channels, recipients \in RecipientLists :
          SendCalled(method, channel, recipients)
    \/ \E raises \in BOOLEAN : SendToRecipient(raises)
    \/ SendReturns

SpecNotifications == Init /\ [][NextNotifications]_vars

----------------------------------------------------------------------------
(* The websocket connections of the API server: websocket_endpoint and      *)
(* broadcast_update are coroutines of one event loop; they interleave at    *)
(* their awaits.                                                            *)

\* the elements of a list
Range(list) == { list[k] : k \in 1..Len(list) }

\* list.remove(x) for an x that is in the list: the first x is taken out
ListRemove(list, x) ==
    LET first == CHOOSE k \in 1..Len(list) :
                    list[k] = x /\ \A j \in 1..(k - 1) : list[j] # x
    IN  [k \in 1..(Len(list) - 1) |-> IF k < first THEN list[k] ELSE list[k + 1]]

\* websocket_endpoint: accept() and active_connections.append(websocket)
Connect(c) ==
    /\ c \notin endpoints
    /\ c \notin Range(active_connections)
    /\ broadcast.connection # c
    /\ endpoints' = endpoints \cup {c}
    /\ active_connections' = Append(active_connections, c)
    /\ UNCHANGED << broadcast, removed_twice, outside_ws >>

\* websocket_endpoint: the heartbeat raises WebSocketDisconnect and the
\* handler calls active_connections.remove(websocket)
Disconnect(c) ==
    /\ c \in endpoints
    /\ endpoints' = endpoints \ {c}
    /\ IF c \in Range(active_connections)
       THEN /\ active_connections' = ListRemove(active_connections, c)
            /\ UNCHANGED removed_twice
       ELSE /\ removed_twice' = TRUE
            /\ UNCHANGED active_connections
    /\ UNCHANGED << broadcast, outside_ws >>

\* broadcast_update is called: `for connection in active_connections`
\* builds the list's iterator
BroadcastCalled ==
    /\ broadcast.pc \in {"idle", "returned", "raised"}
    /\ broadcast' = [pc |-> "iterating", i |-> 1, connection |-> 0,
                     snapshot |-> Range(active_connections),
                     attempted |-> {}, failed |-> {}]
    /\ UNCHANGED << active_connections, endpoints, removed_twice, outside_ws >>

\* the iterator yields the element at its index and moves on;
\* `await connection.send_json(data)` starts
BroadcastPicks ==
    /\ broadcast.pc = "iterating"
    /\ broadcast.i <= Len(active_connections)
    /\ broadcast' = [broadcast EXCEPT
          !.pc = "sending",
          !.connection = active_connections[broadcast.i],
          !.i = @ + 1,
          !.attempted = @ \cup {active_connections[broadcast.i]}]
    /\ UNCHANGED << active_connections, endpoints, removed_twice, outside_ws >>

\* send_json returned, or raised and `except: active_connections.remove(connection)`
\* ran; a remove() of a connection that is no longer in the list raises
\* ValueError out of broadcast_update
BroadcastSendEnds(ok) ==
    /\ broadcast.pc = "sending"
    /\ IF ok
       THEN /\ broadcast' = [broadcast EXCEPT !.pc = "iterating", !.connection = 0]
            /\ UNCHANGED << active_connections, removed_twice >>
       ELSE IF broadcast.connection \in Range(active_connections)
       THEN /\ broadcast' = [broadcast EXCEPT !.pc = "iterating", !.connection = 0,
                                              !.failed = @ \cup {broadcast.connection}]
            /\ active_connections' = ListRemove(active_connections, broadcast.connection)
            /\ UNCHANGED removed_twice
       ELSE /\ broadcast' = [broadcast EXCEPT !.pc = "raised", !.connection = 0,
                                              !.failed = @ \cup {broadcast.connection}]
            /\ removed_twice' = TRUE
            /\ UNCHANGED active_connections
    /\ UNCHANGED << endpoints, outside_ws >>

\* the iterator is past the end of the list: broadcast_update returns
BroadcastReturns ==
    /\ broadcast.pc = "iterating"
    /\ broadcast.i > Len(active_connections)
    /\ broadcast' = [broadcast EXCEPT !.pc = "returned"]
    /\ UNCHANGED << active_connections, endpoints, removed_twice, outside_ws >>

NextBroadcast ==
    \/ \E c \in Connections : Connect(c)
    \/ \E c \in Connections : Disconnect(c)
    \/ BroadcastCalled
    \/ BroadcastPicks
    \/ \E ok \in BOOLEAN : BroadcastSendEnds(ok)
    \/ BroadcastReturns

SpecBroadcast == Init /\ [][NextBroadcast]_vars

----------------------------------------------------------------------------
(* Helpers of the properties *)

\* the steps and the results of a finished or running execution, paired by position
ExecutedPairs ==
    { <<CurrentPlan.execution_plan[i], execution_results[i]>> : i \in DOMAIN execution_results }
      \cup (IF round = 2
            THEN { <<plan.execution_plan[i], prev_results[i]>> : i \in DOMAIN prev_results }
            ELSE {})

\* a step no executor is registered for: the else branch, or a tool the registry lacks
Unregistered(step) ==
    \/ Route(step) = "unknown"
    \/ Route(step) = "mcp" /\ step.tool \notin RegisteredTools

\* the capability tag such a step names
MissingCapability(step) == IF Route(step) = "mcp" THEN step.tool ELSE step.agent

\* the formatted message contains the name
Mentions(message, name) == \E i \in DOMAIN message : message[i] = name

\* the ids of the steps of a plan
IdsOf(steps) == { steps[i].step : i \in DOMAIN steps }

\* the dependency edges of a plan: from a task to each task it depends on
EdgesOf(steps) ==
    UNION { { <<steps[i].step, d>> : d \in steps[i].dependencies } : i \in DOMAIN steps }

RECURSIVE ReachableFrom(_, _, _)
\* the ids reachable from `frontier` along `edges` in at most n more hops
ReachableFrom(edges, frontier, n) ==
    IF n = 0
    THEN frontier
    ELSE ReachableFrom(edges,
                       frontier \cup { e[2] : e \in { f \in edges : f[1] \in frontier } },
                       n - 1)

\* some task depends, directly or not, on itself
HasCycle(steps) ==
    \E id \in IdsOf(steps) :
        id \in ReachableFrom(EdgesOf(steps),
                             { e[2] : e \in { f \in EdgesOf(steps) : f[1] = id } },
                             Len(steps))

\* the (agent, tool) pair a step names
CapabilityOf(step) == <<step.agent, step.tool>>

\* the ids of a sequence of steps or of results, in order
StepIds(seq) == [i \in DOMAIN seq |-> seq[i].step]

\* the results of the steps of capability c, in the order of the results;
\* a result belongs to the step at its position in `steps`
ResultsOfCapability(steps, results, c) ==
    LET zipped == [i \in DOMAIN results |-> <<steps[i], results[i]>>]
        mine == SelectSeq(zipped, LAMBDA z : CapabilityOf(z[1]) = c)
    IN  [i \in DOMAIN mine |-> mine[i][2]]

\* the steps of capability c, in declaration order
StepsOfCapability(steps, c) == SelectSeq(steps, LAMBDA st : CapabilityOf(st) = c)

\* two steps of the plan share an id
HasDuplicateIds(steps) ==
    \E i, j \in DOMAIN steps : i # j /\ steps[i].step = steps[j].step

\* a dependency names an id that no step of the plan has
HasDanglingDependency(steps) ==
    \E i \in DOMAIN steps : \E d \in steps[i].dependencies : d \notin IdsOf(steps)

----------------------------------------------------------------------------
(* C1 *)

----------------------------------------------------------------------------
(* C2, C3, C4: plans whose subtasks carry dependencies (SpecDeps) *)

\* C2: every step the loop dispatched had, at that moment, a success result
\* for each task listed in its dependencies (stated for the plans without a
\* structural error, which C3 and C4 do not ask to be rejected).
C2_DependenciesSucceededAtDispatch ==
    ( /\ ~HasCycle(plan.execution_plan)
      /\ ~HasDuplicateIds(plan.execution_plan)
      /\ ~HasDanglingDependency(plan.execution_plan) ) =>
        \A i \in DOMAIN dispatch_log :
            dispatch_log[i].round = 1 => dispatch_log[i].unmet = {}

\* C3: a plan whose dependency graph has a cycle is rejected: no step of it
\* is dispatched and the run does not end successfully.
C3_CyclicPlanRejected ==
    HasCycle(plan.execution_plan) =>
        /\ dispatch_log = <<>>
        /\ (pc = "done" => ~response.success)

\* C4: a plan with a duplicated task id or a dependency on an id that is not
\* in the plan is rejected: no step of it is dispatched and the run ends
\* with an error status.
C4_MalformedPlanRejected ==
    ( /\ ~HasCycle(plan.execution_plan)
      /\ (HasDuplicateIds(plan.execution_plan) \/ HasDanglingDependency(plan.execution_plan)) ) =>
        /\ dispatch_log = <<>>
        /\ (pc = "done" => ~response.success)

----------------------------------------------------------------------------
(* C5 *)

\* C5: once the planner has answered with requires_clarification, the run is
\* over: it returned success=False with the clarification payload and no
\* executed steps, nothing was dispatched and the replanner was not called.
C5_ClarificationShortCircuit ==
    (plan.kind # "none" /\ plan.requires_clarification) =>
        /\ pc = "done"
        /\ response.kind = "clarification"
        /\ ~response.success
        /\ response.executed_steps = <<>>
        /\ response.execution_results = <<>>
        /\ response.plan = plan
        /\ dispatch_log = <<>>
        /\ round = 0
        /\ planning_rounds = 1

\* C5 witness: the planner asked for clarification on a plan that has steps
C5_Witness ==
      ( /\ pc = "done"
        /\ plan.requires_clarification
        /\ Len(plan.execution_plan) > 0
        /\ response.kind = "clarification" )

----------------------------------------------------------------------------
(* C6 *)

\* C6: no exception leaves process_message; a finished run has returned an
\* OrchestrationResult, and after a failure of a collaborator that result
\* is the error result with success=False.
C6_NeverRaises ==
    /\ ~escaped
    /\ pc = "done" => response.kind \in {"clarification", "completed", "error"}
    /\ response.kind = "error" => (~response.success /\ response.error # NoText)

\* C6 witness: a collaborator raised after a replan and the run returned the error result
C6_Witness ==
      ( /\ pc = "done"
        /\ response.kind = "error"
        /\ planning_rounds = 2 )

----------------------------------------------------------------------------
(* C7 *)

\* C7: a failing step neither aborts the run nor stops the loop: while a plan
\* executes every step before the loop position has its own result, in plan
\* order, and once _execute_plan has returned every step of the plan has one;
\* the error result of a run never comes from a step's executor.
C7_FailureIsolation ==
    /\ round >= 1 =>
          /\ Len(execution_results) <= Len(CurrentPlan.execution_plan)
          /\ \A i \in DOMAIN execution_results :
                execution_results[i].step = CurrentPlan.execution_plan[i].step
    /\ (round >= 1 /\ pc = "executing") => Len(execution_results) = idx - 1
    /\ pc \in {"evaluating", "replanning", "responding", "saving"} =>
          Len(execution_results) = Len(CurrentPlan.execution_plan)
    /\ response.kind = "completed" =>
          Len(response.execution_results) = Len(CurrentPlan.execution_plan)
    /\ \A i \in DOMAIN dispatch_log : ~dispatch_log[i].aborted

\* C7 witness: a step whose executor raised and a step that returned an
\* error were both followed by a step that ran and succeeded
C7_Witness ==
      ( /\ round = 2
        /\ Len(prev_results) = 2
        /\ prev_results[1].status \in {"error", "failed"}
        /\ prev_results[2].status = "success"
        /\ Len(execution_results) = 1
        /\ execution_results[1].status = "error" )

----------------------------------------------------------------------------
(* C8 *)

----------------------------------------------------------------------------
(* C9, C10 *)

\* C9: the plan executed after a replan holds no task that had a success
\* result in the prior round, and no such task is dispatched again.
C9_ReplanOnlyUnfinished ==
    /\ round = 2 => IdsOf(new_plan.execution_plan) \cap SucceededBefore = {}
    /\ \A i \in DOMAIN dispatch_log :
          dispatch_log[i].round = 2 => dispatch_log[i].step \notin SucceededBefore

\* C10: every success result recorded before a replan is, unchanged, among
\* the results the run returns.
C10_SuccessResultsKept ==
    (pc = "done" /\ response.kind = "completed") =>
        \A i \in DOMAIN prev_results :
            prev_results[i].status = "success" =>
                \E j \in DOMAIN response.execution_results :
                    response.execution_results[j] = prev_results[i]

----------------------------------------------------------------------------
(* C11 *)

\* C11: the iteration counter (the number of planning rounds the run is in)
\* never decreases, each pass through replanning adds exactly one to it, and
\* it never exceeds the iteration budget max_iterations, whichever positive
\* budget the run was given.
C11_IterationBoundedByBudget ==
    [][ /\ planning_rounds' >= planning_rounds
        /\ (pc = "replanning" /\ pc' # "replanning") =>
              planning_rounds' = planning_rounds + 1
        /\ \A m \in { b \in Budgets : b >= 1 } : planning_rounds' <= m ]_vars

----------------------------------------------------------------------------
(* C12 *)

\* C12: a run is reported as completed / successful only if every task of
\* the run succeeded: the results of a successful response hold no task
\* with status failed or error.
C12_CompletedOnlyIfAllSucceeded ==
    (pc = "done" /\ response.success) =>
        \A i \in DOMAIN response.execution_results :
            response.execution_results[i].status = "success"

----------------------------------------------------------------------------
(* C13: plans of two subtasks A (1) and B (2, depending on A) (SpecScenario) *)

\* C13: when A succeeded on its first attempt, B failed once and, after one
\* replan, B succeeded and the run ended with every result a success, the
\* run is reported successful after two planning rounds and A was executed
\* exactly once.
C13_ScenarioAB ==
    ( /\ pc = "done"
      /\ response.kind = "completed"
      /\ round = 2
      /\ Len(prev_results) = 2
      /\ prev_results[1].status = "success"
      /\ prev_results[2].status = "failed"
      /\ \E i \in DOMAIN execution_results :
            execution_results[i].step = 2 /\ execution_results[i].status = "success"
      /\ ~_needs_replanning(execution_results) ) =>
        /\ response.success
        /\ planning_rounds = 2
        /\ Cardinality({ i \in DOMAIN dispatch_log : dispatch_log[i].step = 1 }) = 1

----------------------------------------------------------------------------
(* C14 *)

\* C14: with an iteration budget of one (the loop takes no budget, so every
\* run is a run under that budget), a run whose every executed task came
\* back failed made exactly one planning round, the replanner was not
\* called, and the run is not reported as completed.
C14_CapOfOne ==
    ( /\ pc = "done"
      /\ response.kind = "completed"
      /\ dispatch_log # <<>>
      /\ \A i \in DOMAIN prev_results : prev_results[i].status = "failed"
      /\ \A i \in DOMAIN execution_results : execution_results[i].status = "failed" ) =>
        /\ planning_rounds = 1
        /\ round = 1
        /\ ~response.success

----------------------------------------------------------------------------
(* C15 *)

\* C15: the results a run returns are those of the plan it executed last,
\* one per step, and for every capability the results of that capability's
\* tasks carry the tasks' ids in the order the plan declares them.
C15_ResultOrder ==
    (pc = "done" /\ response.kind = "completed") =>
        LET steps == CurrentPlan.execution_plan
            results == response.execution_results
        IN  /\ Len(results) = Len(steps)
            /\ \A c \in { CapabilityOf(steps[i]) : i \in DOMAIN steps } :
                  StepIds(ResultsOfCapability(steps, results, c))
                      = StepIds(StepsOfCapability(steps, c))

\* C15 witness: a returned run whose plan declares two tasks of one
\* capability, the task with the larger id first
C15_Witness ==
    /\ pc = "done"
    /\ response.kind = "completed"
    /\ Len(CurrentPlan.execution_plan) = 2
    /\ CapabilityOf(CurrentPlan.execution_plan[1]) = CapabilityOf(CurrentPlan.execution_plan[2])
    /\ StepIds(CurrentPlan.execution_plan) = <<2, 1>>
    /\ StepIds(response.execution_results) = <<2, 1>>

----------------------------------------------------------------------------
(* C16: requests served through the shared planner (SpecRequests) *)

\* C16: the plan and the task results a request's refine_plan reads were
\* written by that same request, never by another one.
C16_RequestIsolation ==
    \A r \in Requests :
        /\ reads[r].plan \in {0, r}
        /\ reads[r].results \subseteq {r}

----------------------------------------------------------------------------
(* C17: executors that may fail to respond (SpecDeadline) *)

\* C17: the run never blocks: as long as it has not returned it can take a
\* further step, also while it waits for an executor that does not respond
\* (the expiry of the deadline, which cancels the task and ends the run).
C17_NeverBlocks == pc # "done" => ENABLED NextDeadline

----------------------------------------------------------------------------
(* C18 *)

\* C18: a plan the planner or the replanner builds because the model's
\* answer was malformed or no JSON has exactly one task and asks for no
\* clarification, and the run goes on to dispatch that task.
C18_FallbackPlanHasOneTask ==
    /\ \A p \in {plan, new_plan} :
          p.kind \in {"basic", "error"} =>
              /\ Len(p.execution_plan) = 1
              /\ ~p.requires_clarification
    /\ (plan.kind \in {"basic", "error"} /\ pc = "done" /\ response.kind # "error") =>
          \E i \in DOMAIN dispatch_log : dispatch_log[i].round = 1
    /\ (new_plan.kind \in {"basic", "error"} /\ pc = "done" /\ response.kind # "error") =>
          \E i \in DOMAIN dispatch_log : dispatch_log[i].round = 2

----------------------------------------------------------------------------
(* C19 *)

\* C19: after an execution the run turns to the replanner only if some task
\* failed or errored and the iteration budget is not used up, and it turns
\* to its end only if every task succeeded or the budget is used up,
\* whichever positive budget max_iterations the run was given.
C19_EvaluationDecision ==
    \A m \in { b \in Budgets : b >= 1 } :
        /\ pc = "replanning" =>
              (_needs_replanning(execution_results) /\ planning_rounds < m)
        /\ pc \in {"responding", "saving"} =>
              (~_needs_replanning(execution_results) \/ planning_rounds >= m)

----------------------------------------------------------------------------
(* C20 *)

\* C20: the run moves only along planning -> executing -> evaluating ->
\* (replanning -> executing | end): an execution starts only from planning
\* or replanning, every execution that ends is followed by the evaluation,
\* the replanner and the end are entered only from the evaluation (or, for
\* the end, from the clarification and error returns), and a step is
\* dispatched only when a plan exists and the run has not ended.
C20_PhaseOrder ==
    [][ /\ (pc # "executing" /\ pc' = "executing") => pc \in {"planning", "replanning"}
        /\ (pc = "executing" /\ pc' # "executing") => pc' \in {"evaluating", "done"}
        /\ (pc # "replanning" /\ pc' = "replanning") => pc = "evaluating"
        /\ (pc # "responding" /\ pc' = "responding") => pc = "evaluating"
        /\ dispatch_log' # dispatch_log =>
              (plan.kind # "none" /\ pc = "executing") ]_vars

----------------------------------------------------------------------------
(* C21 *)

\* the executor of a step malfunctioned: it raised, or there is none to reach
Malfunctioned(entry) ==
    entry.outcome = "raise" \/ Unregistered(entry.task)

\* the executor ran and reported that the outcome could not be achieved
ReportedFailure(entry) ==
    ~Malfunctioned(entry) /\ entry.outcome \in {"error_result", "denied", "bad_params"}

\* a run whose first execution was evaluated and needed no replan
PassedEvaluation ==
    round = 1 /\ pc \in {"responding", "saving", "done"} /\ response.kind # "error"

----------------------------------------------------------------------------
(* C22: concurrent callers of update_state (SpecWriters) *)

\* C22: once every writer has finished, task_results holds an entry for
\* every task id that was written.
C22_NoLostUpdate ==
    (\A w \in Writers : writers[w].pc = "done") =>
        \A w \in Writers :
            global_state.task_results[writers[w].task] # AbsentResult

----------------------------------------------------------------------------
(* C23 *)

\* C23: the plan a returned response carries is the plan whose steps
\* produced the results it reports: after a replan, the replanned plan.
C23_ResponseCarriesFinalPlan ==
    (pc = "done" /\ response.kind = "completed") =>
        /\ response.plan = CurrentPlan
        /\ Len(response.plan.execution_plan) = Len(response.execution_results)

----------------------------------------------------------------------------
(* C24: the tool registry (SpecTools) *)

\* the context of the last call held every scope of the tool, the tool was
\* registered and every required parameter was there
GateOpen ==
    /\ tool_call.tool.registered
    /\ \A scope \in tool_call.tool.scopes :
          \E i \in DOMAIN tool_call.permissions : tool_call.permissions[i] = scope
    /\ tool_call.tool.required \subseteq tool_call.parameters

\* the cause execute_tool has to name when the gate is closed
GateCause ==
    IF ~tool_call.tool.registered THEN "' not found"
    ELSE IF \E scope \in tool_call.tool.scopes :
               \A i \in DOMAIN tool_call.permissions : tool_call.permissions[i] # scope
         THEN "Insufficient permissions for tool '"
         ELSE "Invalid parameters for tool '"

\* C24: execute_tool invokes the tool exactly when the tool is registered,
\* the context holds all its scopes and all required parameters are given;
\* otherwise it answers success=False naming the tool and the cause; a tool
\* that raises is answered with success=False and its message.
C24_ToolGate ==
    tool_call.called =>
        /\ tool_call.invoked <=> GateOpen
        /\ ~GateOpen =>
              /\ tool_call.result.success = "False"
              /\ Mentions(tool_call.result.error, tool_call.tool_name)
              /\ Mentions(tool_call.result.error, GateCause)
        /\ (GateOpen /\ tool_call.behaviour = "raise") =>
              /\ tool_call.result.success = "False"
              /\ tool_call.result.error # NoText
        /\ (GateOpen /\ tool_call.behaviour # "raise") =>
              tool_call.result.success = "True"

\* C24 witness: a tool with two scopes was called after one of them had been
\* removed from the context, and was not invoked
C24_Witness ==
    /\ tool_call.called
    /\ tool_call.tool.scopes = {"email.read", "db.read"}
    /\ tool_call.permissions = <<"db.read">>
    /\ tool_call.parameters = ParameterNames
    /\ ~tool_call.invoked

----------------------------------------------------------------------------
(* C25: tool steps as _execute_plan records them (SpecTools) *)

\* C25: a step dispatched to a tool is recorded success only if the tool
\* reported no error; when the registry's answer or the tool's own result
\* carries an error the step is recorded failed and asks for a replan.
C25_ToolErrorIsFailed ==
    (tool_call.called /\ StartsWithEmail(tool_call.tool_name)) =>
        /\ tool_call.status = "success" =>
              (tool_call.result.error = NoText /\ tool_call.result.inner_error = NoText)
        /\ (tool_call.result.error # NoText \/ tool_call.result.inner_error # NoText) =>
              /\ tool_call.status = "failed"
              /\ _needs_replanning(<< [status |-> tool_call.status] >>)

----------------------------------------------------------------------------
(* C26: concurrent create_user_context calls (SpecContexts) *)

\* C26: all calls for one conversation return the same UserContext object,
\* and at most one object is ever created for a conversation (a stored
\* context is never replaced by a fresh one).
C26_GetOrCreate ==
    /\ \A k, l \in Callers :
          ( /\ ctx_callers[k].pc = "done"
            /\ ctx_callers[l].pc = "done"
            /\ ctx_callers[k].conversation = ctx_callers[l].conversation ) =>
              ctx_callers[k].returned = ctx_callers[l].returned
    /\ \A c \in Conversations :
          Cardinality({ o \in ctx_created : o[1] = c }) <= 1

----------------------------------------------------------------------------
(* C27: the context's state after each call (SpecConversation) *)

\* C27: after each process_message call on the same context the
\* conversation_state is COMPLETED exactly when the call returned
\* success=True and ERRORED exactly when it returned through the exception
\* handler; after a clarification return it is neither.
C27_StateTracksOutcome ==
    pc = "done" =>
        /\ (conversation_state = "completed" <=> response.success)
        /\ (conversation_state = "errored" <=> response.kind = "error")

----------------------------------------------------------------------------
(* C28: token lookup (SpecTokens) *)

\* C28: get_oauth_token returns None, without raising, when no token was
\* ever stored for the pair (in memory or on disk) and when the stored
\* token's expires_at has passed; an expired token is never returned.
C28_LookupReturnsNone ==
    token_lookup.kind # "idle" =>
        /\ (token_lookup.missing => token_lookup.kind = "None")
        /\ (token_lookup.expired => token_lookup.kind = "None")

\* the part of C28 about expired tokens alone
ExpiredNeverReturned ==
    (token_lookup.kind # "idle" /\ token_lookup.expired) => token_lookup.kind = "None"

----------------------------------------------------------------------------
(* C29: delivery accounting (SpecNotifications) *)

\* the recipients of the log with the given outcomes
Delivered(outcomes) ==
    Cardinality({ k \in 1..Len(delivery_log) : delivery_log[k] \in outcomes })

\* C29: the status a send method returns satisfies
\* sent + failed = number of recipients, and sent counts exactly the sends
\* that did not raise (the simulated sends of the push channel included).
C29_DeliveryAccounting ==
    notif_call.pc = "returned" =>
        /\ notif_status.sent + notif_status.failed = Len(notif_call.recipients)
        /\ notif_status.sent = Delivered({"sent", "simulated"})

\* a call of the sms or email loop returned after one send went through
\* and one raised
C29_Witness ==
    /\ notif_call.pc = "returned"
    /\ notif_call.channel \in {"sms", "email"}
    /\ notif_status.sent >= 1
    /\ Delivered({"raised"}) >= 1

----------------------------------------------------------------------------
(* C30: broadcast_update and the list it iterates (SpecBroadcast) *)

\* C30: broadcast_update attempts delivery to every connection that was in
\* active_connections when it was called, also when failed sends remove
\* connections during the broadcast; on return no connection whose send
\* failed is in the list; and no connection is removed twice.
C30_BroadcastReachesEveryone ==
    /\ broadcast.pc = "returned" =>
          /\ broadcast.snapshot \subseteq broadcast.attempted
          /\ broadcast.failed \cap Range(active_connections) = {}
    /\ ~removed_twice

====
